---- MODULE Spec2Model ----
(***************************************************************************)
(* browser-console-tap: the capture callbacks of main() and the end-of-    *)
(* window summary, as a state machine.                                     *)
(*                                                                         *)
(* The network ledger is the array networkRequests, mutated by the         *)
(* page.on('request' | 'response' | 'requestfailed' | 'websocket')         *)
(* callbacks; the console transcript is the array consoleMessages, filled  *)
(* by the asynchronous page.on('console') callback.  main() reads both     *)
(* once page.waitForTimeout(delayMs) has resolved.                         *)
(***************************************************************************)
EXTENDS Integers, Sequences, FiniteSets, TLC

(***************************************************************************)
(* Bounds of the model.                                                    *)
(***************************************************************************)
MaxRequests == 2        \* entries of networkRequests in Spec
MaxClockRequests == 3   \* entries of networkRequests in SpecClock
MaxSummaryRequests == 3 \* entries of networkRequests in SpecSummary
MaxNow == 7000          \* last value of Date.now() in SpecClock, in ms
MaxConsole == 3         \* console notifications delivered in one window
MaxMixedRequests == 2   \* entries of networkRequests in SpecMixed
MaxSockets == 3         \* entries of networkRequests in SpecSocket
MaxStringLen == 4       \* longest short string, and largest explicit maxLength

(***************************************************************************)
(* Program constants.                                                      *)
(***************************************************************************)
\* `duration > 5000' in the timeout-pattern diagnostic
StaleThresholdMs == 5000
\* The response status of a closed websocket is the string 'CLOSED'.  It is
\* encoded as the number 0, which is no HTTP status: every numeric
\* comparison the program makes with it (>= 400, >= 300) is false in
\* JavaScript, as it is for 0.
CLOSED == 0
\* function truncateValue(value, maxLength = 512)
DefaultMaxLength == 512
\* `timeoutMs < 1000' in the validation of --timeout
MinTimeoutMs == 1000

VARIABLES
    networkRequests,   \* const networkRequests = []
    openSockets,       \* indexes of websocket entries whose socket is not closed
    now,               \* Date.now()
    phase,             \* position of main(): "observing" or "closed"
    report,            \* what main() computed after the wait, <<>> before
    lastEvent,         \* the notification handled by the last step
    consoleMessages,   \* const consoleMessages = []
    inFlight,          \* console callbacks suspended at `await Promise.all'
    delivered,         \* console notifications delivered so far, in order
    order,             \* for each entry of consoleMessages, its place in delivered
    stdout,            \* the [console.*] lines printed, in order
    stderr,            \* the [pageerror] lines printed, in order
    formatCall,        \* the arguments of the last call of truncateValue, <<>> before
    formatOutput,      \* what that call returned, <<>> before
    headersCall,       \* the arguments of the last call of formatHeaders, <<>> before
    headersOutput,     \* its `formatted' object and what it returned, <<>> before
    argv,              \* the command line: url, delay, timeout, headers
    handlers,          \* the page events main() has registered a callback for
    browser,           \* the browser of main(): "none", "open" or "closed"
    exitCode,          \* <<>> while the process runs, <<code>> once it has exited
    mainLog            \* the lines main() and the validation printed, in order

vars == <<networkRequests, openSockets, now, phase, report, lastEvent,
          consoleMessages, inFlight, delivered, order, stdout, stderr,
          formatCall, formatOutput, headersCall, headersOutput, argv, handlers, browser, exitCode, mainLog>>

netVars == <<networkRequests, openSockets, now, report>>
consoleVars == <<consoleMessages, inFlight, delivered, order, stdout, stderr>>
formatVars == <<formatCall, formatOutput, headersCall, headersOutput>>
mainVars == <<argv, handlers, browser, exitCode, mainLog>>

(***************************************************************************)
(* Values.                                                                 *)
(***************************************************************************)
Url(h, p) == [host |-> h, path |-> p]

UrlA == Url("a.test", "/app.js")
UrlB == Url("a.test", "/logo.png")
UrlC == Url("b.test", "/api")
UrlWs == Url("ws.test", "/socket")
\* a socket address that new URL() rejects: it has no authority
UrlUnparsed == Url("", "socket")

Urls == {UrlA, UrlC}
SummaryUrls == {UrlA, UrlB, UrlC}
Methods == {"GET", "POST"}
HttpStatuses == {200, 404}
ErrorTexts == {"net::ERR_FAILED"}
FailedResourceTypes == {"script", "xhr"}

PlainHeaders == [accept |-> "*/*"]
UpgradeHeaders == [upgrade |-> "websocket"]
ResponseHeaders == [server |-> "test"]
EmptyHeaders == [name \in {} |-> ""]

\* JavaScript's undefined / null for the optional fields of an entry
Undefined == "undefined"
Null == "null"

\* request.url(), method(), headers(), postData(), resourceType() of the
\* requests the page issues
ScriptRequest ==
    [url |-> UrlA, method |-> "GET", headers |-> PlainHeaders,
     postData |-> Null, resourceType |-> "script"]
PostRequest ==
    [url |-> UrlA, method |-> "POST", headers |-> PlainHeaders,
     postData |-> "body", resourceType |-> "xhr"]
ImageRequest ==
    [url |-> UrlB, method |-> "GET", headers |-> PlainHeaders,
     postData |-> Null, resourceType |-> "image"]
XhrRequest ==
    [url |-> UrlC, method |-> "GET", headers |-> PlainHeaders,
     postData |-> Null, resourceType |-> "xhr"]
UpgradeRequest ==
    [url |-> UrlC, method |-> "GET", headers |-> UpgradeHeaders,
     postData |-> Null, resourceType |-> "other"]

RequestInputs == {ScriptRequest, PostRequest, UpgradeRequest}
ClockRequestInputs == {ScriptRequest}
SummaryRequestInputs == {ScriptRequest, ImageRequest, XhrRequest}

\* headers['upgrade']
HeaderGet(headers, key) ==
    IF key \in DOMAIN headers THEN headers[key] ELSE Undefined

\* new URL(url).host / .hostname
hostname(url) == url.host

\* new URL(url) returns; it throws a TypeError otherwise
parses(url) == url.host # ""

\* the headers the 'websocket' callback makes up for the upgrade request
capturedHeaders(url) ==
    ("upgrade" :> "websocket") @@ ("connection" :> "Upgrade") @@
    ("sec-websocket-key" :> "dGhlIHNhbXBsZSBub25jZQ==") @@
    ("sec-websocket-version" :> "13") @@
    ("sec-websocket-extensions" :> "permessage-deflate; client_max_window_bits") @@
    ("accept-encoding" :> "gzip, deflate, br, zstd") @@
    ("accept-language" :> "en-US,en;q=0.9,fr;q=0.8") @@
    ("cache-control" :> "no-cache") @@ ("pragma" :> "no-cache") @@
    ("host" :> hostname(url)) @@
    ("origin" :> "https://" \o hostname(url)) @@
    ("user-agent" :> "Mozilla/5.0")

(***************************************************************************)
(* Entries of networkRequests.  response is <<>> while the entry has no    *)
(* response property and <<[status, headers, duration]>> once it has one.  *)
(***************************************************************************)
networkRequest(r, t) ==
    [url |-> r.url, method |-> r.method, headers |-> r.headers,
     postData |-> r.postData, resourceType |-> r.resourceType,
     startTime |-> t,
     isWebSocketUpgrade |-> (HeaderGet(r.headers, "upgrade") = "websocket"),
     isWebSocket |-> FALSE,
     response |-> <<>>, failed |-> FALSE, failure |-> Undefined]

failedRequest(url, method, errorText, resourceType, t) ==
    [url |-> url, method |-> method, headers |-> PlainHeaders,
     postData |-> Null, resourceType |-> resourceType,
     startTime |-> t,
     isWebSocketUpgrade |-> FALSE, isWebSocket |-> FALSE,
     response |-> <<>>, failed |-> TRUE, failure |-> errorText]

webSocketRequest(url, t) ==
    [url |-> url, method |-> "WEBSOCKET",
     \* let capturedHeaders = {}; try { ... } catch (error) { console.log(...) }
     headers |-> IF parses(url) THEN capturedHeaders(url) ELSE EmptyHeaders,
     postData |-> Null, resourceType |-> "websocket",
     startTime |-> t,
     isWebSocketUpgrade |-> FALSE, isWebSocket |-> TRUE,
     response |-> <<>>, failed |-> FALSE, failure |-> Undefined]

\* findRequest comparing the url alone
findRequestByUrl(reqs, url, method) ==
    LET hits == {i \in 1..Len(reqs) : reqs[i].url = url}
    IN IF hits = {} THEN 0
       ELSE CHOOSE i \in hits : \A j \in hits : i <= j

\* networkRequests.find(req => req.url === url && req.method === method):
\* the index of the first entry with that url and method, 0 when there is none
findRequest(reqs, url, method) ==
    LET hits == {i \in 1..Len(reqs) :
                    reqs[i].url = url /\ reqs[i].method = method}
    IN IF hits = {} THEN 0
       ELSE CHOOSE i \in hits : \A j \in hits : i <= j

(***************************************************************************)
(* The summary main() computes once the wait is over.                      *)
(***************************************************************************)
\* successfulRequests counting only the responses with a status below 400
successfulBelow400(reqs) ==
    SelectSeq(reqs, LAMBDA req : req.response # <<>> /\ req.response[1].status < 400)

\* successfulRequests counting every entry that has not failed
successfulNotFailed(reqs) == SelectSeq(reqs, LAMBDA req : ~req.failed)

\* networkRequests.filter(req => req.response)
successfulRequests(reqs) == SelectSeq(reqs, LAMBDA req : req.response # <<>>)

\* failedRequests counting every entry that has no response
failedRequestsNoResponse(reqs) == SelectSeq(reqs, LAMBDA req : req.response = <<>>)

\* networkRequests.filter(req => req.failed)
failedRequests(reqs) == SelectSeq(reqs, LAMBDA req : req.failed)

\* pendingRequests listing the newest entry first
pendingRequestsNewestFirst(reqs) ==
    LET p == SelectSeq(reqs, LAMBDA req : req.response = <<>> /\ ~req.failed)
    IN [k \in 1..Len(p) |-> p[Len(p) + 1 - k]]

\* networkRequests.filter(req => !req.response && !req.failed)
pendingRequests(reqs) ==
    SelectSeq(reqs, LAMBDA req : req.response = <<>> /\ ~req.failed)

\* pendingRequests.filter(req => req.resourceType === type)
pendingOfType(reqs, type) ==
    SelectSeq(pendingRequests(reqs), LAMBDA req : req.resourceType = type)

\* longPendingRequests with the threshold included
longPendingRequestsInclusive(reqs, t) ==
    SelectSeq(SelectSeq(reqs, LAMBDA req : req.response = <<>> /\ ~req.failed),
              LAMBDA req : t - req.startTime >= StaleThresholdMs)

\* pendingRequests.filter(req => Date.now() - req.startTime > 5000)
longPendingRequests(reqs, t) ==
    SelectSeq(pendingRequests(reqs),
              LAMBDA req : t - req.startTime > StaleThresholdMs)

\* domains taking the hostnames of all the entries
domainsOfAll(reqs) == {hostname(reqs[i].url) : i \in 1..Len(reqs)}

\* [...new Set(pendingRequests.map(req => new URL(req.url).hostname))]
domains(reqs) ==
    LET p == pendingRequests(reqs)
    IN {hostname(p[i].url) : i \in 1..Len(p)}

summary(reqs, messages, t) ==
    [captured |-> Len(messages),
     successful |-> Len(successfulRequests(reqs)),
     failed |-> Len(failedRequests(reqs)),
     pending |-> Len(pendingRequests(reqs)),
     pendingScripts |-> pendingOfType(reqs, "script"),
     pendingStylesheets |-> pendingOfType(reqs, "stylesheet"),
     pendingImages |-> pendingOfType(reqs, "image"),
     longPendingRequests |-> longPendingRequests(reqs, t),
     domains |-> domains(reqs),
     \* if (domains.length > 1): `Pending requests span ... different domains'
     multipleDomains |-> Cardinality(domains(reqs)) > 1,
     at |-> t]

(***************************************************************************)
(* The notification handled by a step, kept for stating properties.        *)
(***************************************************************************)
Event(kind, url, method, status, reason, resourceType) ==
    [kind |-> kind, url |-> url, method |-> method, status |-> status,
     reason |-> reason, resourceType |-> resourceType]

NoEvent == Event("none", UrlA, "GET", 0, Undefined, Undefined)

(***************************************************************************)
(* The command line.  url is program.args[0], delay and timeout are the    *)
(* option strings (commander gives '3000' and '30000' when they are        *)
(* absent), headers is the --headers string and network the --network      *)
(* flag.                                                                   *)
(***************************************************************************)
Argv(url, delay, timeout, headers, network) ==
    [url |-> url, delay |-> delay, timeout |-> timeout, headers |-> headers,
     network |-> network]

\* no url argument
NoUrl == Url("", "")
\* the argument 'invalid-url' of the integration test
InvalidUrl == Url("", "invalid-url")

DefaultDelay == "3000"
DefaultTimeout == "30000"
NoHeaders == ""

\* the events main() registers a callback for
ConsoleHandlers == {"console", "pageerror", "requestfailed"}
NetworkHandlers == {"request", "response", "requestfailed", "websocket"}

\* the lines of main() the properties speak of
Starting == "Starting browser-console-tap"
Navigating == "Navigating to url..."
PageLoaded == "Page loaded successfully"
CaptureComplete == "Capture complete!"
BrowserClosed == "Browser closed"

\* the state main() is in while it waits for console activity
Init ==
    /\ networkRequests = <<>>
    /\ openSockets = {}
    /\ now = 0
    /\ phase = "observing"
    /\ report = <<>>
    /\ lastEvent = NoEvent
    /\ consoleMessages = <<>>
    /\ inFlight = {}
    /\ delivered = <<>>
    /\ order = <<>>
    /\ stdout = <<>>
    /\ stderr = <<>>
    /\ formatCall = <<>>
    /\ formatOutput = <<>>
    /\ headersCall = <<>>
    /\ headersOutput = <<>>
    /\ argv = Argv(UrlA, DefaultDelay, DefaultTimeout, NoHeaders, TRUE)
    /\ handlers = ConsoleHandlers \cup NetworkHandlers
    /\ browser = "open"
    /\ exitCode = <<>>
    /\ mainLog = <<Starting, Navigating, PageLoaded>>

\* Request merging a request-start into a Pending entry of the same key
RequestMerged(r, limit) ==
    /\ phase = "observing"
    /\ Len(networkRequests) < limit
    /\ networkRequests' =
          IF \E i \in 1..Len(networkRequests) :
                /\ networkRequests[i].url = r.url
                /\ networkRequests[i].method = r.method
                /\ networkRequests[i].response = <<>>
                /\ ~networkRequests[i].failed
          THEN networkRequests
          ELSE Append(networkRequests, networkRequest(r, now))
    /\ lastEvent' = Event("request", r.url, r.method, 0, Undefined, r.resourceType)
    /\ UNCHANGED <<openSockets, now, phase, report, consoleVars, formatVars,
                   mainVars>>

\* Request putting the new entry in front of the others
RequestPrepending(r, limit) ==
    /\ phase = "observing"
    /\ Len(networkRequests) < limit
    /\ networkRequests' = <<networkRequest(r, now)>> \o networkRequests
    /\ lastEvent' = Event("request", r.url, r.method, 0, Undefined, r.resourceType)
    /\ UNCHANGED <<openSockets, now, phase, report, consoleVars, formatVars,
                   mainVars>>

(***************************************************************************)
(* page.on('request')                                                      *)
(***************************************************************************)
Request(r, limit) ==
    /\ phase = "observing"
    /\ Len(networkRequests) < limit
    /\ networkRequests' = Append(networkRequests, networkRequest(r, now))
    /\ lastEvent' = Event("request", r.url, r.method, 0, Undefined, r.resourceType)
    /\ UNCHANGED <<openSockets, now, phase, report, consoleVars, formatVars,
                   mainVars>>

(***************************************************************************)
(* page.on('response')                                                     *)
(***************************************************************************)
\* respond giving the response to every entry of that url and method
respondAll(reqs, url, method, status, t) ==
    [i \in 1..Len(reqs) |->
        IF reqs[i].url = url /\ reqs[i].method = method
        THEN [reqs[i] EXCEPT !.response =
                 <<[status |-> status, headers |-> ResponseHeaders,
                    duration |-> t - reqs[i].startTime]>>]
        ELSE reqs[i]]

respond(reqs, url, method, status, t) ==
    LET i == findRequest(reqs, url, method)
    IN IF i # 0
       THEN [reqs EXCEPT ![i].response =
                <<[status |-> status, headers |-> ResponseHeaders,
                   duration |-> t - reqs[i].startTime]>>]
       ELSE reqs

Response(url, method, status) ==
    /\ phase = "observing"
    /\ networkRequests' = respond(networkRequests, url, method, status, now)
    /\ lastEvent' = Event("response", url, method, status, Undefined, Undefined)
    /\ UNCHANGED <<openSockets, now, phase, report, consoleVars, formatVars,
                   mainVars>>

(***************************************************************************)
(* page.on('requestfailed'), the one registered with network tracking      *)
(***************************************************************************)
\* fail dropping a failure that matches no entry
failDropsUnmatched(reqs, url, method, errorText, resourceType, t) ==
    LET i == findRequest(reqs, url, method)
    IN IF i # 0
       THEN [reqs EXCEPT ![i].failed = TRUE,
                         ![i].failure = errorText,
                         ![i].resourceType = resourceType]
       ELSE reqs

fail(reqs, url, method, errorText, resourceType, t) ==
    LET i == findRequest(reqs, url, method)
    IN IF i # 0
       THEN [reqs EXCEPT ![i].failed = TRUE,
                         ![i].failure = errorText,
                         ![i].resourceType = resourceType]
       ELSE Append(reqs, failedRequest(url, method, errorText, resourceType, t))

RequestFailed(url, method, errorText, resourceType, limit) ==
    /\ phase = "observing"
    /\ \/ findRequest(networkRequests, url, method) # 0
       \/ Len(networkRequests) < limit
    /\ networkRequests' =
           fail(networkRequests, url, method, errorText, resourceType, now)
    /\ lastEvent' = Event("requestfailed", url, method, 0, errorText, resourceType)
    /\ UNCHANGED <<openSockets, now, phase, report, consoleVars, formatVars,
                   mainVars>>

(***************************************************************************)
(* page.on('websocket') and the two callbacks it registers on the socket   *)
(***************************************************************************)
\* WebSocket giving up when the headers cannot be made up
WebSocketDroppingUnparsed(url, limit) ==
    /\ phase = "observing"
    /\ Len(networkRequests) < limit
    /\ networkRequests' = IF parses(url)
                          THEN Append(networkRequests, webSocketRequest(url, now))
                          ELSE networkRequests
    /\ openSockets' = IF parses(url)
                      THEN openSockets \cup {Len(networkRequests) + 1}
                      ELSE openSockets
    /\ lastEvent' = Event("websocket", url, "WEBSOCKET", 0, Undefined, "websocket")
    /\ UNCHANGED <<now, phase, report, consoleVars, formatVars, mainVars>>

WebSocket(url, limit) ==
    /\ phase = "observing"
    /\ Len(networkRequests) < limit
    /\ networkRequests' = Append(networkRequests, webSocketRequest(url, now))
    /\ openSockets' = openSockets \cup {Len(networkRequests) + 1}
    /\ lastEvent' = Event("websocket", url, "WEBSOCKET", 0, Undefined, "websocket")
    /\ UNCHANGED <<now, phase, report, consoleVars, formatVars, mainVars>>

socketerror(reqs, i, error) ==
    [reqs EXCEPT ![i].failed = TRUE,
                 ![i].failure = "WebSocket error: " \o error]

SocketError(i, error) ==
    /\ phase = "observing"
    /\ i \in openSockets
    /\ networkRequests' = socketerror(networkRequests, i, error)
    /\ lastEvent' = Event("socketerror", networkRequests[i].url, "WEBSOCKET",
                          0, error, "websocket")
    /\ UNCHANGED <<openSockets, now, phase, report, consoleVars, formatVars,
                   mainVars>>

close(reqs, i, t) ==
    [reqs EXCEPT ![i].response =
        <<[status |-> CLOSED, headers |-> EmptyHeaders,
           duration |-> t - reqs[i].startTime]>>]

SocketClose(i) ==
    /\ phase = "observing"
    /\ i \in openSockets
    /\ networkRequests' = close(networkRequests, i, now)
    /\ openSockets' = openSockets \ {i}
    /\ lastEvent' = Event("close", networkRequests[i].url, "WEBSOCKET",
                          CLOSED, Undefined, "websocket")
    /\ UNCHANGED <<now, phase, report, consoleVars, formatVars, mainVars>>

(***************************************************************************)
(* Time passing between two notifications.                                 *)
(***************************************************************************)
Tick(limit) ==
    /\ phase = "observing"
    /\ now + 1000 <= limit
    /\ now' = now + 1000
    /\ lastEvent' = NoEvent
    /\ UNCHANGED <<networkRequests, openSockets, phase, report, consoleVars,
                   formatVars, mainVars>>

\* WindowClose that also gives up the entries still waiting
WindowCloseCancelling ==
    /\ phase = "observing"
    /\ phase' = "closed"
    /\ report' = <<summary(networkRequests, consoleMessages, now)>>
    /\ networkRequests' =
          [i \in 1..Len(networkRequests) |->
              IF networkRequests[i].response = <<>> /\ ~networkRequests[i].failed
              THEN [networkRequests[i] EXCEPT !.failed = TRUE]
              ELSE networkRequests[i]]
    /\ mainLog' = Append(mainLog, CaptureComplete)
    /\ lastEvent' = NoEvent
    /\ UNCHANGED <<openSockets, now, consoleVars, formatVars,
                   argv, handlers, browser, exitCode>>

(***************************************************************************)
(* await page.waitForTimeout(delayMs) resolves: main() prints the counts   *)
(* and the diagnostics.                                                    *)
(***************************************************************************)
WindowClose ==
    /\ phase = "observing"
    /\ phase' = "closed"
    /\ report' = <<summary(networkRequests, consoleMessages, now)>>
    /\ mainLog' = Append(mainLog, CaptureComplete)
    /\ lastEvent' = NoEvent
    /\ UNCHANGED <<networkRequests, openSockets, now, consoleVars, formatVars,
                   argv, handlers, browser, exitCode>>

(***************************************************************************)
(* Console messages.  A value the page logged is kept with its type and    *)
(* its two renderings, String(v) and JSON.stringify(v).  An argument       *)
(* handle answers jsonValue() and textContent() with a value or by         *)
(* throwing (<<>>), and toString() with a string.                          *)
(***************************************************************************)
Value(type, string, json) == [type |-> type, string |-> string, json |-> json]

StringValue(text) == Value("string", text, "\"" \o text \o "\"")
ObjectValue == Value("object", "[object Object]", "{\"key\":\"value\"}")
NumberValue(text) == Value("number", text, text)

Handle(json, text, str) == [jsonValue |-> json, textContent |-> text, toString |-> str]

StringHandle(text) == Handle(<<StringValue(text)>>, <<>>, text)
NumberHandle(text) == Handle(<<NumberValue(text)>>, <<>>, text)
ObjectHandle == Handle(<<ObjectValue>>, <<>>, "JSHandle@object")
NodeHandle == Handle(<<>>, <<StringValue("Console Test Page")>>, "JSHandle@node")
OpaqueHandle == Handle(<<>>, <<>>, "JSHandle@function")

Message(type, text, args) == [type |-> type, text |-> text, args |-> args]

ConsoleInputs ==
    { Message("log", "A", <<StringHandle("A")>>),
      Message("error", "B", <<StringHandle("B")>>),
      Message("warning", "C JSHandle@object", <<StringHandle("C"), ObjectHandle>>),
      Message("log", "JSHandle@node JSHandle@function", <<NodeHandle, OpaqueHandle>>),
      Message("debug", "42", <<NumberHandle("42")>>),
      Message("log", "", <<>>) }

PageErrors == {"ReferenceError: x is not defined"}

\* resolveArg going from jsonValue() straight to toString()
resolveArgNoTextContent(arg) ==
    IF arg.jsonValue # <<>> THEN arg.jsonValue[1]
    ELSE StringValue(arg.toString)

\* the try / catch cascade of one argument:
\* arg.jsonValue(), else arg.textContent(), else arg.toString()
resolveArg(arg) ==
    IF arg.jsonValue # <<>> THEN arg.jsonValue[1]
    ELSE IF arg.textContent # <<>> THEN arg.textContent[1]
    ELSE StringValue(arg.toString)

\* await Promise.all(msg.args().map(...))
resolveArgs(args) == [i \in 1..Len(args) |-> resolveArg(args[i])]

\* typeof arg === 'object' ? JSON.stringify(arg) : String(arg)
formatArg(arg) == IF arg.type = "object" THEN arg.json ELSE arg.string

\* formattedArgs.join(' ')
RECURSIVE join(_)
join(strings) ==
    IF Len(strings) = 0 THEN ""
    ELSE IF Len(strings) = 1 THEN strings[1]
    ELSE strings[1] \o " " \o join(Tail(strings))

\* the text printed after `[console.<type>] '
outputText(messageText, args) ==
    IF Len(args) > 0 /\ args[1] # StringValue(messageText)
    THEN messageText \o " " \o join([i \in 1..Len(args) |-> formatArg(args[i])])
    ELSE messageText

\* typeColor testing for 'warn', the name of the console method
typeColorWarn(type) ==
    IF type = "error" THEN "red"
    ELSE IF type = "warn" THEN "yellow" ELSE "green"

\* msg.type() === 'error' ? 'red' : msg.type() === 'warning' ? 'yellow' : 'green'
typeColor(type) ==
    IF type = "error" THEN "red"
    ELSE IF type = "warning" THEN "yellow" ELSE "green"

\* the part of the 'console' callback that runs once the arguments are
\* resolved: the record is pushed and the line printed
pushMessage(messages, msg, t) ==
    Append(messages, [type |-> msg.type, text |-> msg.text,
                      args |-> resolveArgs(msg.args), timestamp |-> t])

consoleLine(msg) ==
    [color |-> typeColor(msg.type), type |-> msg.type,
     text |-> outputText(msg.text, resolveArgs(msg.args))]

(***************************************************************************)
(* page.on('console'): the callback runs up to its await.  With no         *)
(* argument to resolve it resumes before any other callback runs;          *)
(* otherwise it stays suspended until the page has answered.               *)
(***************************************************************************)
Console(msg) ==
    /\ phase = "observing"
    /\ Len(delivered) < MaxConsole
    /\ delivered' = Append(delivered, msg)
    /\ IF Len(msg.args) = 0
       THEN /\ consoleMessages' = pushMessage(consoleMessages, msg, now)
            /\ order' = Append(order, Len(delivered) + 1)
            /\ stdout' = Append(stdout, consoleLine(msg))
            /\ UNCHANGED inFlight
       ELSE /\ inFlight' = inFlight \cup {Len(delivered) + 1}
            /\ UNCHANGED <<consoleMessages, order, stdout>>
    /\ lastEvent' = NoEvent
    /\ UNCHANGED <<netVars, formatVars, mainVars, phase, stderr>>

\* the page has answered the jsonValue() calls of callback k
ConsoleResume(k) ==
    /\ phase = "observing"
    /\ k \in inFlight
    /\ inFlight' = inFlight \ {k}
    /\ consoleMessages' = pushMessage(consoleMessages, delivered[k], now)
    /\ order' = Append(order, k)
    /\ stdout' = Append(stdout, consoleLine(delivered[k]))
    /\ lastEvent' = NoEvent
    /\ UNCHANGED <<netVars, formatVars, mainVars, phase, delivered, stderr>>

\* PageError recording the error as a failed request as well
PageErrorAsFailure(message) ==
    /\ phase = "observing"
    /\ Len(stderr) < MaxConsole
    /\ stderr' = Append(stderr, "[pageerror] " \o message)
    /\ networkRequests' =
          Append(networkRequests, failedRequest(UrlA, "GET", message, "script", now))
    /\ lastEvent' = NoEvent
    /\ UNCHANGED <<openSockets, now, report, formatVars, mainVars, phase,
                   consoleMessages, inFlight, delivered, order, stdout>>

(***************************************************************************)
(* page.on('pageerror')                                                    *)
(***************************************************************************)
PageError(message) ==
    /\ phase = "observing"
    /\ Len(stderr) < MaxConsole
    /\ stderr' = Append(stderr, "[pageerror] " \o message)
    /\ lastEvent' = NoEvent
    /\ UNCHANGED <<netVars, formatVars, mainVars, phase, consoleMessages, inFlight,
                   delivered, order, stdout>>

(***************************************************************************)
(* The start of the program: the command line is validated, then main()    *)
(* launches the browser, registers its callbacks and navigates.            *)
(***************************************************************************)
\* a JavaScript number: NaN, or an integer
NaN == [nan |-> TRUE, value |-> 0]
Number(n) == [nan |-> FALSE, value |-> n]
isNaN(x) == x.nan

IsDigit(c) == c \in {"0", "1", "2", "3", "4", "5", "6", "7", "8", "9"}

DigitValue(c) ==
    CASE c = "0" -> 0 [] c = "1" -> 1 [] c = "2" -> 2 [] c = "3" -> 3
      [] c = "4" -> 4 [] c = "5" -> 5 [] c = "6" -> 6 [] c = "7" -> 7
      [] c = "8" -> 8 [] c = "9" -> 9

\* the value of the digits of text from position i on, after those read
RECURSIVE digitsValue(_, _, _)
digitsValue(text, i, read) ==
    IF i <= Len(text) /\ IsDigit(SubSeq(text, i, i))
    THEN digitsValue(text, i + 1, read * 10 + DigitValue(SubSeq(text, i, i)))
    ELSE read

\* parseInt(text) of a string without leading white space: an optional
\* sign, then the leading digits, whatever follows them; NaN without a digit
parseInt(text) ==
    LET signed == Len(text) > 0 /\ SubSeq(text, 1, 1) \in {"-", "+"}
        first == IF signed THEN 2 ELSE 1
    IN IF first > Len(text) \/ ~IsDigit(SubSeq(text, first, first)) THEN NaN
       ELSE IF signed /\ SubSeq(text, 1, 1) = "-"
            THEN Number(0 - digitsValue(text, first, 0))
            ELSE Number(digitsValue(text, first, 0))

\* JSON.parse(text) returns an object, for the --headers strings of the model
isJsonObject(text) ==
    /\ Len(text) >= 2
    /\ SubSeq(text, 1, 1) = "{"
    /\ SubSeq(text, Len(text), Len(text)) = "}"

\* process.exit(code) after the lines were printed
exit(lines, code) ==
    /\ mainLog' = mainLog \o lines
    /\ exitCode' = <<code>>
    /\ phase' = "exited"

\* the program goes on to its next step
proceed(next) ==
    /\ phase' = next
    /\ UNCHANGED <<exitCode, mainLog>>

\* CheckUrl that only tests whether a url was given
CheckUrlGivenOnly ==
    /\ phase = "start"
    /\ IF argv.url = NoUrl THEN exit(<<"Error: URL is required">>, 1)
       ELSE proceed("urlChecked")
    /\ lastEvent' = NoEvent
    /\ UNCHANGED <<netVars, consoleVars, formatVars, argv, handlers, browser>>

\* if (!url) ...; try { new URL(url) } catch ...
CheckUrl ==
    /\ phase = "start"
    /\ IF argv.url = NoUrl THEN exit(<<"Error: URL is required">>, 1)
       ELSE IF ~parses(argv.url) THEN exit(<<"Error: Invalid URL">>, 1)
       ELSE proceed("urlChecked")
    /\ lastEvent' = NoEvent
    /\ UNCHANGED <<netVars, consoleVars, formatVars, argv, handlers, browser>>

\* const delayMs = parseInt(options.delay); if (isNaN(delayMs) || delayMs < 0)
delayMs == parseInt(argv.delay)

CheckDelay ==
    /\ phase = "urlChecked"
    /\ IF isNaN(delayMs) \/ delayMs.value < 0
       THEN exit(<<"Error: Invalid delay">>, 1)
       ELSE proceed("delayChecked")
    /\ lastEvent' = NoEvent
    /\ UNCHANGED <<netVars, consoleVars, formatVars, argv, handlers, browser>>

\* const timeoutMs = parseInt(options.timeout);
\* if (isNaN(timeoutMs) || timeoutMs < 1000)
timeoutMs == parseInt(argv.timeout)

CheckTimeout ==
    /\ phase = "delayChecked"
    /\ IF isNaN(timeoutMs) \/ timeoutMs.value < MinTimeoutMs
       THEN exit(<<"Error: Invalid timeout">>, 1)
       ELSE proceed("timeoutChecked")
    /\ lastEvent' = NoEvent
    /\ UNCHANGED <<netVars, consoleVars, formatVars, argv, handlers, browser>>

\* if (options.headers) { try { customHeaders = JSON.parse(...) ... } catch ... }
ParseHeaders ==
    /\ phase = "timeoutChecked"
    /\ IF argv.headers # NoHeaders /\ ~isJsonObject(argv.headers)
       THEN exit(<<"Error: Invalid headers format">>, 1)
       ELSE proceed("headersParsed")
    /\ lastEvent' = NoEvent
    /\ UNCHANGED <<netVars, consoleVars, formatVars, argv, handlers, browser>>

\* main() up to page = await context.newPage(); when the launch throws, the
\* catch block prints the error and calls process.exit(1)
Launch(launched) ==
    /\ phase = "headersParsed"
    /\ IF launched
       THEN /\ browser' = "open"
            /\ mainLog' = Append(mainLog, Starting)
            /\ phase' = "launched"
            /\ UNCHANGED exitCode
       ELSE /\ exit(<<Starting, "Error: browser launch failed">>, 1)
            /\ UNCHANGED browser
    /\ lastEvent' = NoEvent
    /\ UNCHANGED <<netVars, consoleVars, formatVars, argv, handlers>>

\* the page.on(...) calls of main()
RegisterHandlers ==
    /\ phase = "launched"
    /\ handlers' = ConsoleHandlers
                      \cup (IF argv.network THEN NetworkHandlers ELSE {})
    /\ proceed("registered")
    /\ lastEvent' = NoEvent
    /\ UNCHANGED <<netVars, consoleVars, formatVars, argv, browser>>

\* Goto going on to the wait after a navigation that failed
GotoIgnoringFailure(loaded) ==
    /\ phase = "registered"
    /\ mainLog' = mainLog \o (IF loaded THEN <<Navigating, PageLoaded>>
                              ELSE <<Navigating, "Error: navigation failed">>)
    /\ phase' = "observing"
    /\ lastEvent' = NoEvent
    /\ UNCHANGED <<netVars, consoleVars, formatVars, argv, handlers, browser,
                   exitCode>>

\* await page.goto(url, ...): it resolves, or it throws and the catch block
\* prints the error and calls process.exit(1)
Goto(loaded) ==
    /\ phase = "registered"
    /\ IF loaded
       THEN /\ mainLog' = mainLog \o <<Navigating, PageLoaded>>
            /\ phase' = "observing"
            /\ UNCHANGED exitCode
       ELSE exit(<<Navigating, "Error: navigation failed">>, 1)
    /\ lastEvent' = NoEvent
    /\ UNCHANGED <<netVars, consoleVars, formatVars, argv, handlers, browser>>

\* finally { if (browser) { await browser.close(); ... } }, then main()
\* returns and the process ends
Finally ==
    /\ phase = "closed"
    /\ browser' = IF browser = "open" THEN "closed" ELSE browser
    /\ exit(IF browser = "open" THEN <<BrowserClosed>> ELSE <<>>, 0)
    /\ lastEvent' = NoEvent
    /\ UNCHANGED <<netVars, consoleVars, formatVars, argv, handlers>>

(***************************************************************************)
(* Formatting of values for display.  A value is given to truncateValue as *)
(* a Value: its type, String(value) and JSON.stringify(value).             *)
(***************************************************************************)
\* the object {a: 1}
ObjectA1 == Value("object", "[object Object]", "{\"a\":1}")

Alphabet == {"a", "b"}

RECURSIVE StringsUpTo(_)
StringsUpTo(n) ==
    IF n = 0 THEN {""}
    ELSE LET shorter == StringsUpTo(n - 1)
         IN shorter \cup {s \o c : s \in shorter, c \in Alphabet}

RECURSIVE Repeat(_, _)
Repeat(c, n) ==
    IF n = 0 THEN ""
    ELSE IF n % 2 = 0 THEN LET half == Repeat(c, n \div 2) IN half \o half
    ELSE c \o Repeat(c, n - 1)

\* strings around the default bound
LongStrings ==
    {Repeat("a", n) : n \in {DefaultMaxLength - 1, DefaultMaxLength,
                             DefaultMaxLength + 1, DefaultMaxLength + MaxStringLen}}

FormatValues ==
    {StringValue(s) : s \in StringsUpTo(MaxStringLen) \cup LongStrings}
        \cup {ObjectA1, ObjectValue, NumberValue("42")}

MaxLengths == 0..MaxStringLen

\* value.substring(0, maxLength)
substring(value, maxLength) ==
    IF maxLength >= Len(value) THEN value ELSE SubSeq(value, 1, maxLength)

\* truncateValue that cuts a string as soon as it reaches the bound
truncateValueAtBound(value, maxLength) ==
    LET text == value.string
    IN IF Len(text) < maxLength THEN text
       ELSE substring(text, maxLength) \o "..."

\* function truncateValue(value, maxLength = 512)
truncateValue(value, maxLength) ==
    \* a string is taken as it is, any other value through String(value)
    LET text == value.string
    IN IF Len(text) <= maxLength THEN text
       ELSE substring(text, maxLength) \o "..."

FormatCall(value, maxLength, defaulted) ==
    [value |-> value, maxLength |-> maxLength, defaulted |-> defaulted]

\* truncateValue(value, maxLength)
TruncateValue(value, maxLength) ==
    /\ formatCall' = <<FormatCall(value, maxLength, FALSE)>>
    /\ formatOutput' = <<truncateValue(value, maxLength)>>
    /\ lastEvent' = NoEvent
    /\ UNCHANGED <<netVars, phase, consoleVars, mainVars, headersCall, headersOutput>>

\* truncateValue(value): the bound is the parameter's default
TruncateValueDefault(value) ==
    /\ formatCall' = <<FormatCall(value, DefaultMaxLength, TRUE)>>
    /\ formatOutput' = <<truncateValue(value, DefaultMaxLength)>>
    /\ lastEvent' = NoEvent
    /\ UNCHANGED <<netVars, phase, consoleVars, mainVars, headersCall, headersOutput>>

(***************************************************************************)
(* formatHeaders.  A header map is given as the list of its entries,       *)
(* <<key, value>> in the order of Object.entries, or as no map at all      *)
(* (undefined or null).                                                    *)
(***************************************************************************)
NoHeaderMap == [given |-> FALSE, entries |-> <<>>]
HeaderMap(entries) == [given |-> TRUE, entries |-> entries]

HeaderTexts == {StringValue(s) : s \in StringsUpTo(MaxStringLen) \cup LongStrings}

HeaderMaps ==
    {NoHeaderMap, HeaderMap(<<>>)}
        \cup {HeaderMap(<<<<"accept", v>>>>) : v \in HeaderTexts}
        \cup {HeaderMap(<<<<"accept", v>>, <<"cookie", w>>>>) :
                 v \in HeaderTexts, w \in HeaderTexts}

\* formatted giving the bound to the first value and nothing to the others
formattedFirstOnly(headers, maxLength) ==
    [k \in 1..Len(headers.entries) |->
        <<headers.entries[k][1],
          truncateValue(headers.entries[k][2], IF k = 1 THEN maxLength ELSE 0)>>]

\* for (const [key, value] of Object.entries(headers))
\*   formatted[key] = truncateValue(value, maxLength)
formatted(headers, maxLength) ==
    [k \in 1..Len(headers.entries) |->
        <<headers.entries[k][1], truncateValue(headers.entries[k][2], maxLength)>>]

\* JSON.stringify(object, null, 2) of an object whose values are strings
\* without a character that JSON escapes
RECURSIVE members(_)
members(entries) ==
    IF Len(entries) = 0 THEN ""
    ELSE "  \"" \o entries[1][1] \o "\": \"" \o entries[1][2] \o "\""
         \o (IF Len(entries) = 1 THEN "\n" ELSE ",\n" \o members(Tail(entries)))

stringify(entries) ==
    IF Len(entries) = 0 THEN "{}" ELSE "{\n" \o members(entries) \o "}"

\* function formatHeaders(headers, maxLength = 512)
formatHeaders(headers, maxLength) ==
    IF ~headers.given \/ Len(headers.entries) = 0 THEN "{}"
    ELSE stringify(formatted(headers, maxLength))

HeadersOutput(headers, maxLength) ==
    [formatted |-> IF ~headers.given \/ Len(headers.entries) = 0 THEN <<>>
                   ELSE formatted(headers, maxLength),
     text |-> formatHeaders(headers, maxLength)]

\* formatHeaders(headers, maxLength); a run follows one call
FormatHeaders(headers, maxLength) ==
    /\ headersCall = <<>>
    /\ headersCall' = <<[headers |-> headers, maxLength |-> maxLength]>>
    /\ headersOutput' = <<HeadersOutput(headers, maxLength)>>
    /\ lastEvent' = NoEvent
    /\ UNCHANGED <<netVars, phase, consoleVars, mainVars, formatCall, formatOutput>>

\* formatHeaders(headers): the bound is the parameter's default
FormatHeadersDefault(headers) ==
    /\ headersCall = <<>>
    /\ headersCall' = <<[headers |-> headers, maxLength |-> DefaultMaxLength]>>
    /\ headersOutput' = <<HeadersOutput(headers, DefaultMaxLength)>>
    /\ lastEvent' = NoEvent
    /\ UNCHANGED <<netVars, phase, consoleVars, mainVars, formatCall, formatOutput>>

(***************************************************************************)
(* Spec: every kind of network notification, in any order.                 *)
(***************************************************************************)
Next ==
    \/ \E r \in RequestInputs : Request(r, MaxRequests)
    \/ \E u \in Urls, m \in Methods, s \in HttpStatuses : Response(u, m, s)
    \/ \E u \in Urls, m \in Methods, e \in ErrorTexts,
          t \in FailedResourceTypes : RequestFailed(u, m, e, t, MaxRequests)
    \/ WebSocket(UrlWs, MaxRequests)
    \/ \E i \in openSockets : SocketError(i, "ECONNRESET")
    \/ \E i \in openSockets : SocketClose(i)
    \/ WindowClose

Spec == Init /\ [][Next]_vars

(***************************************************************************)
(* SpecClock: requests to one endpoint while time passes.                  *)
(***************************************************************************)
ClockNext ==
    \/ \E r \in ClockRequestInputs : Request(r, MaxClockRequests)
    \/ Response(UrlA, "GET", 200)
    \/ RequestFailed(UrlA, "GET", "net::ERR_FAILED", "script", MaxClockRequests)
    \/ Tick(MaxNow)
    \/ WindowClose

SpecClock == Init /\ [][ClockNext]_vars

(***************************************************************************)
(* SpecSummary: requests to distinct URLs and their responses.             *)
(***************************************************************************)
SummaryNext ==
    \/ \E r \in SummaryRequestInputs : Request(r, MaxSummaryRequests)
    \/ \E u \in SummaryUrls, s \in HttpStatuses : Response(u, "GET", s)
    \/ WindowClose

SpecSummary == Init /\ [][SummaryNext]_vars

(***************************************************************************)
(* SpecConsole: console and page-error notifications.                      *)
(***************************************************************************)
ConsoleNext ==
    \/ \E msg \in ConsoleInputs : Console(msg)
    \/ \E k \in inFlight : ConsoleResume(k)
    \/ \E e \in PageErrors : PageError(e)
    \/ WindowClose

SpecConsole == Init /\ [][ConsoleNext]_vars

(***************************************************************************)
(* SpecMixed: console and network notifications of one page, interleaved.  *)
(***************************************************************************)
MixedConsoleInputs ==
    { Message("error", "B", <<StringHandle("B")>>),
      Message("log", "", <<>>) }

MixedNext ==
    \/ Request(ScriptRequest, MaxMixedRequests)
    \/ Response(UrlA, "GET", 200)
    \/ RequestFailed(UrlA, "GET", "net::ERR_FAILED", "script", MaxMixedRequests)
    \/ WebSocket(UrlWs, MaxMixedRequests)
    \/ \E i \in openSockets : SocketClose(i)
    \/ \E msg \in MixedConsoleInputs : Console(msg)
    \/ \E k \in inFlight : ConsoleResume(k)
    \/ \E e \in PageErrors : PageError(e)

SpecMixed == Init /\ [][MixedNext]_vars

(***************************************************************************)
(* SpecSocket: websockets opening, failing and closing.                    *)
(***************************************************************************)
SocketUrls == {UrlWs, UrlUnparsed}

SocketNext ==
    \/ \E url \in SocketUrls : WebSocket(url, MaxSockets)
    \/ \E i \in openSockets : SocketError(i, "ECONNRESET")
    \/ \E i \in openSockets : SocketClose(i)

SpecSocket == Init /\ [][SocketNext]_vars

(***************************************************************************)
(* SpecMain: one run of the program, from its command line to its exit.    *)
(***************************************************************************)
UrlArgs == {NoUrl, InvalidUrl, UrlA}
DelayArgs == {DefaultDelay, "0", "-5", "invalid", "12abc", ""}
TimeoutArgs == {DefaultTimeout, "500", "soon"}
HeadersArgs == {NoHeaders, "{\"X-Custom\":\"value\"}", "X-Custom: value"}

MainInit ==
    /\ networkRequests = <<>>
    /\ openSockets = {}
    /\ now = 0
    /\ phase = "start"
    /\ report = <<>>
    /\ lastEvent = NoEvent
    /\ consoleMessages = <<>>
    /\ inFlight = {}
    /\ delivered = <<>>
    /\ order = <<>>
    /\ stdout = <<>>
    /\ stderr = <<>>
    /\ formatCall = <<>>
    /\ formatOutput = <<>>
    /\ headersCall = <<>>
    /\ headersOutput = <<>>
    /\ argv \in {Argv(url, delay, timeout, headers, network) :
                    url \in UrlArgs, delay \in DelayArgs, timeout \in TimeoutArgs,
                    headers \in HeadersArgs, network \in BOOLEAN}
    /\ handlers = {}
    /\ browser = "none"
    /\ exitCode = <<>>
    /\ mainLog = <<>>

MainNext ==
    \/ CheckUrl
    \/ CheckDelay
    \/ CheckTimeout
    \/ ParseHeaders
    \/ \E launched \in BOOLEAN : Launch(launched)
    \/ RegisterHandlers
    \/ \E loaded \in BOOLEAN : Goto(loaded)
    \/ WindowClose
    \/ Finally

SpecMain == MainInit /\ [][MainNext]_vars

(***************************************************************************)
(* SpecHeaders: calls of formatHeaders.                                    *)
(***************************************************************************)
HeadersNext ==
    \/ \E headers \in HeaderMaps, maxLength \in MaxLengths :
          FormatHeaders(headers, maxLength)
    \/ \E headers \in HeaderMaps : FormatHeadersDefault(headers)

SpecHeaders == Init /\ [][HeadersNext]_vars

(***************************************************************************)
(* SpecFormat: calls of truncateValue.                                     *)
(***************************************************************************)
FormatNext ==
    \/ \E value \in FormatValues, maxLength \in MaxLengths :
          TruncateValue(value, maxLength)
    \/ \E value \in FormatValues : TruncateValueDefault(value)

SpecFormat == Init /\ [][FormatNext]_vars

(***************************************************************************)
(* Vocabulary of the properties.  An entry is Pending while it has neither *)
(* a response nor the failed flag, Completed once it has a response and    *)
(* Failed once it has the failed flag.                                     *)
(***************************************************************************)
IsCompleted(req) == req.response # <<>>
IsFailed(req) == req.failed
IsPending(req) == ~IsCompleted(req) /\ ~IsFailed(req)
IsTerminal(req) == IsCompleted(req) \/ IsFailed(req)

HasKey(req, url, method) == req.url = url /\ req.method = method
KeyIndexes(reqs, url, method) ==
    {i \in 1..Len(reqs) : HasKey(reqs[i], url, method)}

\* the entries that were there before the step are there, unchanged
OldEntriesKept ==
    /\ Len(networkRequests') >= Len(networkRequests)
    /\ \A i \in 1..Len(networkRequests) : networkRequests'[i] = networkRequests[i]

Closed == phase = "closed"
Report == report[1]

(***************************************************************************)
(* C1.  Each exchange's outcome changes at most once: an entry that is     *)
(* Completed or Failed is never modified again (no later response          *)
(* overwrites its status or duration, no entry becomes both Completed and  *)
(* Failed).                                                                *)
(***************************************************************************)
C1_TerminalNeverModified ==
    [][\A i \in 1..Len(networkRequests) :
          IsTerminal(networkRequests[i]) =>
              /\ i <= Len(networkRequests')
              /\ networkRequests'[i] = networkRequests[i]]_vars

(***************************************************************************)
(* C2.  FIFO matching: after two request-starts for the same (url, method) *)
(* the first response for that pair completes the first-created entry and  *)
(* leaves the second Pending, and the second response completes the        *)
(* second-created entry, so that both are Completed and none is Pending.   *)
(***************************************************************************)
TwoSameKey(reqs) ==
    /\ Len(reqs) = 2
    /\ HasKey(reqs[2], reqs[1].url, reqs[1].method)
    /\ ~IsFailed(reqs[1]) /\ ~IsFailed(reqs[2])

ResponseFor(event, req) ==
    event.kind = "response" /\ HasKey(req, event.url, event.method)

C2_FifoMatching ==
    [][(TwoSameKey(networkRequests) /\ ResponseFor(lastEvent', networkRequests[1]))
       => /\ (IsPending(networkRequests[1]) /\ IsPending(networkRequests[2]))
               => /\ IsCompleted(networkRequests'[1])
                  /\ IsPending(networkRequests'[2])
          /\ (IsCompleted(networkRequests[1]) /\ IsPending(networkRequests[2]))
               => /\ networkRequests'[1] = networkRequests[1]
                  /\ IsCompleted(networkRequests'[2])
                  /\ \A i \in 1..Len(networkRequests') :
                        ~IsPending(networkRequests'[i])]_vars

(***************************************************************************)
(* C3.  A response notification whose (url, method) is the key of no       *)
(* entry leaves the ledger exactly as it was: no entry is created and none *)
(* is changed.                                                             *)
(***************************************************************************)
C3_UnmatchedResponseIgnored ==
    [][(/\ lastEvent'.kind = "response"
        /\ KeyIndexes(networkRequests, lastEvent'.url, lastEvent'.method) = {})
       => networkRequests' = networkRequests]_vars

\* an unmatched response has just been handled by a ledger that has entries
C3_Witness ==
    /\ lastEvent.kind = "response"
    /\ KeyIndexes(networkRequests, lastEvent.url, lastEvent.method) = {}
    /\ Len(networkRequests) = 2
    /\ \E i \in 1..2 : networkRequests[i].url = lastEvent.url
    /\ \E i \in 1..2 : IsPending(networkRequests[i])

(***************************************************************************)
(* C4.  A request-failed notification whose (url, method) is the key of no *)
(* entry appends exactly one entry, already Failed, with the               *)
(* notification's url, method, reason and resource type, and leaves the    *)
(* entries that were there unchanged.                                      *)
(***************************************************************************)
C4_UnmatchedFailureAppended ==
    [][(/\ lastEvent'.kind = "requestfailed"
        /\ KeyIndexes(networkRequests, lastEvent'.url, lastEvent'.method) = {})
       => /\ Len(networkRequests') = Len(networkRequests) + 1
          /\ OldEntriesKept
          /\ LET new == networkRequests'[Len(networkRequests')]
             IN /\ HasKey(new, lastEvent'.url, lastEvent'.method)
                /\ IsFailed(new) /\ ~IsCompleted(new)
                /\ new.failure = lastEvent'.reason
                /\ new.resourceType = lastEvent'.resourceType]_vars

\* the last entry was made by an unmatched failure, after another entry
C4_Witness ==
    /\ lastEvent.kind = "requestfailed"
    /\ Len(networkRequests) = 2
    /\ KeyIndexes(networkRequests, lastEvent.url, lastEvent.method) = {2}
    /\ networkRequests[2].startTime = now
    /\ IsFailed(networkRequests[2])
    /\ IsPending(networkRequests[1])
    /\ networkRequests[1].url = lastEvent.url

(***************************************************************************)
(* C5.  The scenario of three request-starts for distinct URLs, one        *)
(* answered 200, one answered 404, one never answered.                     *)
(***************************************************************************)
StatusOf(req) == req.response[1].status

Scenario200_404_Pending(reqs) ==
    /\ Len(reqs) = 3
    /\ \A i, k \in 1..3 : i # k => reqs[i].url # reqs[k].url
    /\ \E i, k, l \in 1..3 :
          /\ IsCompleted(reqs[i]) /\ StatusOf(reqs[i]) = 200
          /\ IsCompleted(reqs[k]) /\ StatusOf(reqs[k]) = 404
          /\ IsPending(reqs[l])

\* C5 as claimed: a Completed exchange with status >= 400 is counted as
\* failed and not as successful, so the scenario is reported as
\* successful = 1, failed = 1, pending = 1.
C5_Status404CountedFailed ==
    (Closed /\ Scenario200_404_Pending(networkRequests))
        => /\ Report.successful = 1
           /\ Report.failed = 1
           /\ Report.pending = 1

\* C5 as amended: every exchange that has a response is counted as
\* successful whatever its status, and only exchanges flagged failed are
\* counted as failed, so the scenario is reported as successful = 2,
\* failed = 0, pending = 1.
C5_CompletedCountedSuccessful ==
    Closed =>
        /\ Report.successful =
              Cardinality({i \in 1..Len(networkRequests) :
                              IsCompleted(networkRequests[i])})
        /\ Report.failed =
              Cardinality({i \in 1..Len(networkRequests) :
                              IsFailed(networkRequests[i])})
        /\ Scenario200_404_Pending(networkRequests)
              => /\ Report.successful = 2
                 /\ Report.failed = 0
                 /\ Report.pending = 1

\* the window has closed on the scenario
C5_Witness == Closed /\ Scenario200_404_Pending(networkRequests)

(***************************************************************************)
(* C6.  The successful, failed and pending counts of the summary partition *)
(* the ledger: they add up to the number of entries.                       *)
(***************************************************************************)
C6_BucketsPartition ==
    Closed =>
        Report.successful + Report.failed + Report.pending
            = Len(networkRequests)

(***************************************************************************)
(* C7.  The transcript keeps the order in which the console notifications  *)
(* were delivered: of two records, the one delivered first comes first,    *)
(* in consoleMessages and in the printed lines.                            *)
(***************************************************************************)
C7_TranscriptInDeliveryOrder ==
    /\ Len(order) = Len(consoleMessages)
    /\ Len(stdout) = Len(consoleMessages)
    /\ \A i, k \in 1..Len(order) : i < k => order[i] < order[k]

(***************************************************************************)
(* C8.  When the window closes every console notification delivered so far *)
(* has its record: the captured-message count main() prints is the number  *)
(* of notifications delivered.                                             *)
(***************************************************************************)
C8_AllDeliveredCaptured ==
    Closed => Report.captured = Len(delivered)

(***************************************************************************)
(* C9.  The stuck list holds exactly the Pending entries whose age at the  *)
(* time of the summary is more than 5000 ms: an age of exactly 5000 ms is  *)
(* not stuck, and a Completed or Failed entry is never listed.             *)
(***************************************************************************)
Listed(req, list) == \E k \in 1..Len(list) : list[k] = req

C9_StuckStrictlyOverThreshold ==
    Closed =>
        /\ \A i \in 1..Len(networkRequests) :
              Listed(networkRequests[i], Report.longPendingRequests)
                  <=> /\ IsPending(networkRequests[i])
                      /\ Report.at - networkRequests[i].startTime > 5000
        /\ Len(Report.longPendingRequests) =
              Cardinality({i \in 1..Len(networkRequests) :
                              /\ IsPending(networkRequests[i])
                              /\ Report.at - networkRequests[i].startTime > 5000})

\* at the summary one Pending entry is 6000 ms old and listed, one is
\* exactly 5000 ms old and not listed, and a terminal entry older than
\* 5000 ms is not listed
C9_Witness ==
    /\ Closed
    /\ \E i, k, l \in 1..Len(networkRequests) :
          /\ IsPending(networkRequests[i])
          /\ Report.at - networkRequests[i].startTime = 6000
          /\ Listed(networkRequests[i], Report.longPendingRequests)
          /\ IsPending(networkRequests[k])
          /\ Report.at - networkRequests[k].startTime = 5000
          /\ ~Listed(networkRequests[k], Report.longPendingRequests)
          /\ IsTerminal(networkRequests[l])
          /\ Report.at - networkRequests[l].startTime > 5000
          /\ ~Listed(networkRequests[l], Report.longPendingRequests)

\* a Pending entry 4000 ms old is not listed
C9_Witness4000 ==
    /\ Closed
    /\ \E i \in 1..Len(networkRequests) :
          /\ IsPending(networkRequests[i])
          /\ Report.at - networkRequests[i].startTime = 4000
          /\ ~Listed(networkRequests[i], Report.longPendingRequests)

(***************************************************************************)
(* C10.  Each request-start notification appends exactly one Pending entry *)
(* with the notification's url and method, also when a Pending entry with  *)
(* that (url, method) exists already; the entries that were there are      *)
(* unchanged.                                                              *)
(***************************************************************************)
C10_RequestAppendsOnePending ==
    [][lastEvent'.kind = "request"
       => /\ Len(networkRequests') = Len(networkRequests) + 1
          /\ OldEntriesKept
          /\ LET new == networkRequests'[Len(networkRequests')]
             IN /\ HasKey(new, lastEvent'.url, lastEvent'.method)
                /\ IsPending(new)]_vars

\* a request-start has just been handled while an entry with the same
\* (url, method) was Pending: both are in the ledger, both Pending
C10_Witness ==
    /\ lastEvent.kind = "request"
    /\ Len(networkRequests) = 2
    /\ HasKey(networkRequests[1], lastEvent.url, lastEvent.method)
    /\ HasKey(networkRequests[2], lastEvent.url, lastEvent.method)
    /\ IsPending(networkRequests[1])
    /\ IsPending(networkRequests[2])

(***************************************************************************)
(* C11.  An entry for which no response, failure, close or error           *)
(* notification arrives stays Pending, unchanged, up to and through the    *)
(* end of the window (it is not cancelled or retried), and the summary     *)
(* counts it as pending, never as successful or failed.                    *)
(***************************************************************************)
\* the notification is one the callbacks can attribute to the entry
Addresses(event, req) ==
    \/ /\ event.kind \in {"response", "requestfailed"}
       /\ HasKey(req, event.url, event.method)
    \/ /\ event.kind \in {"socketerror", "close"}
       /\ req.isWebSocket
       /\ req.url = event.url

CountOf(reqs, Test(_)) == Cardinality({i \in 1..Len(reqs) : Test(reqs[i])})

C11_UnansweredStaysPending ==
    /\ [][\A i \in 1..Len(networkRequests) :
             (IsPending(networkRequests[i])
                 /\ ~Addresses(lastEvent', networkRequests[i]))
             => /\ i <= Len(networkRequests')
                /\ networkRequests'[i] = networkRequests[i]]_vars
    /\ [](Closed =>
             /\ Report.pending = CountOf(networkRequests, IsPending)
             /\ Report.successful = CountOf(networkRequests, IsCompleted)
             /\ Report.failed = CountOf(networkRequests, IsFailed))

\* the window has closed on a Pending entry created before an entry that
\* was answered
C11_Witness ==
    /\ Closed
    /\ Len(networkRequests) = 2
    /\ IsPending(networkRequests[1])
    /\ IsCompleted(networkRequests[2])
    /\ Report.pending = 1 /\ Report.successful = 1 /\ Report.failed = 0

(***************************************************************************)
(* C12.  Failure information is never lost: after a request-failed         *)
(* notification an entry with its (url, method) is Failed and stays        *)
(* Failed, and a failure that arrives while a request with that key is in  *)
(* flight (Pending) adds one to the number of Failed entries, so that N    *)
(* failures for N in-flight requests give N Failed entries.                *)
(***************************************************************************)
C12_FailureNeverLost ==
    [][/\ \A i \in 1..Len(networkRequests) :
             IsFailed(networkRequests[i])
                => i <= Len(networkRequests') /\ IsFailed(networkRequests'[i])
       /\ lastEvent'.kind = "requestfailed"
             => /\ \E i \in KeyIndexes(networkRequests',
                                       lastEvent'.url, lastEvent'.method) :
                      IsFailed(networkRequests'[i])
                /\ (\E i \in KeyIndexes(networkRequests,
                                        lastEvent'.url, lastEvent'.method) :
                       IsPending(networkRequests[i]))
                     => CountOf(networkRequests', IsFailed)
                          = CountOf(networkRequests, IsFailed) + 1]_vars

(***************************************************************************)
(* C13.  Summarising again, over the ledger as the first summary left it   *)
(* and with the same `now', gives the same counts, the same pending        *)
(* buckets, the same stuck list and the same hostnames; every list holds   *)
(* its members in the order the entries were created.                      *)
(***************************************************************************)
\* list holds the entries of reqs that pass Test, in the order of reqs
InCreationOrder(list, reqs, Test(_)) ==
    LET I == {i \in 1..Len(reqs) : Test(reqs[i])}
    IN /\ Len(list) = Cardinality(I)
       /\ \A k \in 1..Len(list) :
             \E i \in I : /\ Cardinality({j \in I : j < i}) = k - 1
                          /\ list[k] = reqs[i]

C13_SummaryRepeatable ==
    Closed =>
        /\ summary(networkRequests, consoleMessages, Report.at) = Report
        /\ InCreationOrder(Report.pendingScripts, networkRequests,
              LAMBDA req : IsPending(req) /\ req.resourceType = "script")
        /\ InCreationOrder(Report.pendingStylesheets, networkRequests,
              LAMBDA req : IsPending(req) /\ req.resourceType = "stylesheet")
        /\ InCreationOrder(Report.pendingImages, networkRequests,
              LAMBDA req : IsPending(req) /\ req.resourceType = "image")
        /\ InCreationOrder(Report.longPendingRequests, networkRequests,
              LAMBDA req : IsPending(req)
                             /\ Report.at - req.startTime > StaleThresholdMs)

\* the summary lists two stuck entries created at different times, after
\* an entry that is not Pending
C13_Witness ==
    /\ Closed
    /\ Len(networkRequests) = 3
    /\ IsTerminal(networkRequests[1])
    /\ Len(Report.longPendingRequests) = 2
    /\ Len(Report.pendingScripts) = 2
    /\ Report.longPendingRequests[1].startTime
          < Report.longPendingRequests[2].startTime

(***************************************************************************)
(* C14.  Computing the summary and the diagnostics only reads the ledger:  *)
(* the step that ends the observation window leaves every entry, and the   *)
(* length and the order of the ledger, as they were.                       *)
(***************************************************************************)
C14_SummaryOnlyReads ==
    [][(phase = "observing" /\ phase' = "closed")
          => /\ networkRequests' = networkRequests
             /\ consoleMessages' = consoleMessages
             /\ openSockets' = openSockets]_vars

\* a summary was computed over a ledger holding a Failed and a Pending entry
C14_Witness ==
    /\ Closed
    /\ Len(networkRequests) = 2
    /\ IsFailed(networkRequests[1])
    /\ IsPending(networkRequests[2])
    /\ Report.failed = 1
    /\ Report.pending = 1

(***************************************************************************)
(* C15.  The summary of an empty ledger reports successful = 0, failed = 0 *)
(* and pending = 0; the summary of a ledger whose entries are all Pending  *)
(* reports successful = 0, failed = 0 and pending = the ledger's size.     *)
(***************************************************************************)
AllPending == \A i \in 1..Len(networkRequests) : IsPending(networkRequests[i])

C15_AllPendingSummary ==
    (Closed /\ AllPending)
        => /\ Report.successful = 0
           /\ Report.failed = 0
           /\ Report.pending = Len(networkRequests)
           /\ Len(networkRequests) = 0
                 => /\ Report.pendingScripts = <<>>
                    /\ Report.longPendingRequests = <<>>
                    /\ Report.domains = {}

\* a summary was computed over three entries, all Pending
C15_Witness ==
    /\ Closed
    /\ AllPending
    /\ Len(networkRequests) = 3
    /\ Report.pending = 3

\* a summary was computed over the empty ledger
C15_WitnessEmpty == Closed /\ networkRequests = <<>> /\ Report.pending = 0

(***************************************************************************)
(* C16.  truncateValue of a string s with bound n returns s when the       *)
(* length of s is at most n; otherwise it returns the first n characters   *)
(* of s followed by "...", n + 3 characters in all.  A call without a      *)
(* bound uses 512.                                                         *)
(***************************************************************************)
Formatted == formatOutput # <<>>
Call == formatCall[1]
Output == formatOutput[1]

C16_TruncateBoundsLength ==
    (Formatted /\ Call.value.type = "string")
        => LET s == Call.value.string
               n == Call.maxLength
           IN /\ Call.defaulted => n = 512
              /\ Len(s) <= n => Output = s
              /\ Len(s) > n => /\ Len(Output) = n + 3
                               /\ SubSeq(Output, 1, n) = SubSeq(s, 1, n)
                               /\ SubSeq(Output, n + 1, n + 3) = "..."

\* a string of 513 characters was cut by the default bound
C16_Witness ==
    /\ Formatted
    /\ Call.defaulted
    /\ Call.value.type = "string"
    /\ Len(Call.value.string) = 513
    /\ Len(Output) = 515

\* a string exactly as long as an explicit bound was returned whole
C16_WitnessAtBound ==
    /\ Formatted
    /\ ~Call.defaulted
    /\ Call.value = StringValue("abab")
    /\ Call.maxLength = 4
    /\ Output = "abab"

Source(k) == delivered[order[k]]

C18_ThreeWayColor ==
    \A k \in 1..Len(stdout) :
        /\ stdout[k].type = Source(k).type
        /\ Source(k).type = "error" => stdout[k].color = "red"
        /\ Source(k).type = "warning" => stdout[k].color = "yellow"
        /\ Source(k).type \notin {"error", "warning"} => stdout[k].color = "green"

\* an error, a warning and a debug message were printed
C18_Witness ==
    /\ Len(stdout) = 3
    /\ \E k \in 1..3 : Source(k).type = "error" /\ stdout[k].color = "red"
    /\ \E k \in 1..3 : Source(k).type = "warning" /\ stdout[k].color = "yellow"
    /\ \E k \in 1..3 : Source(k).type = "debug" /\ stdout[k].color = "green"

(***************************************************************************)
(* C19.  The printed text is the raw message text followed by a space and  *)
(* the formatted arguments exactly when the formatted first argument       *)
(* differs from the raw text; when the formatted first argument equals the *)
(* raw text, the printed text is the raw text alone.                       *)
(***************************************************************************)
C19_AppendedIffFormattedDiffers ==
    \A k \in 1..Len(stdout) :
        LET text == Source(k).text
            args == consoleMessages[k].args
            formattedArgs == [i \in 1..Len(args) |-> formatArg(args[i])]
        IN stdout[k].text =
              IF Len(args) > 0 /\ formattedArgs[1] # text
              THEN text \o " " \o join(formattedArgs)
              ELSE text

(***************************************************************************)
(* C20.  Each argument of a console message resolves to a value: that of   *)
(* jsonValue() when it succeeds, else that of textContent() when it        *)
(* succeeds, else the string of toString().  Whichever of these fail, a    *)
(* notification whose callback has run to its end has exactly one record   *)
(* in consoleMessages and one printed line, and no other notification has  *)
(* any.                                                                    *)
(***************************************************************************)
ResolvedByChain(value, arg) ==
    /\ arg.jsonValue # <<>> => value = arg.jsonValue[1]
    /\ (arg.jsonValue = <<>> /\ arg.textContent # <<>>) => value = arg.textContent[1]
    /\ (arg.jsonValue = <<>> /\ arg.textContent = <<>>)
          => value = StringValue(arg.toString)

RecordsOf(d) == {k \in 1..Len(consoleMessages) : order[k] = d}

C20_ResolutionAlwaysYieldsRecord ==
    /\ Len(order) = Len(consoleMessages)
    /\ Len(stdout) = Len(consoleMessages)
    /\ \A k \in 1..Len(consoleMessages) :
          /\ order[k] \in 1..Len(delivered)
          /\ consoleMessages[k].type = Source(k).type
          /\ consoleMessages[k].text = Source(k).text
          /\ Len(consoleMessages[k].args) = Len(Source(k).args)
          /\ \A i \in 1..Len(Source(k).args) :
                ResolvedByChain(consoleMessages[k].args[i], Source(k).args[i])
    /\ \A d \in 1..Len(delivered) :
          Cardinality(RecordsOf(d)) = IF d \in inFlight THEN 0 ELSE 1

\* a message whose arguments fail jsonValue(), one of them textContent()
\* too, has its record
C20_Witness ==
    \E k \in 1..Len(consoleMessages) :
        /\ Source(k).args = <<NodeHandle, OpaqueHandle>>
        /\ consoleMessages[k].args = <<StringValue("Console Test Page"),
                                       StringValue("JSHandle@function")>>
        /\ RecordsOf(order[k]) = {k}

(***************************************************************************)
(* C21.  Every page-error notification adds one record to the transcript,  *)
(* after the records already there, so the count of captured messages      *)
(* printed at the end of the window includes the page errors.              *)
(***************************************************************************)
C21_PageErrorRecorded ==
    /\ [][Len(stderr') = Len(stderr) + 1
             => /\ Len(consoleMessages') = Len(consoleMessages) + 1
                /\ SubSeq(consoleMessages', 1, Len(consoleMessages)) = consoleMessages]_vars
    /\ [](Closed => Report.captured >= Len(stderr))

(***************************************************************************)
(* C22.  Every websocket notification appends exactly one entry: a         *)
(* websocket entry, Pending, carrying the made-up upgrade headers.  When   *)
(* the headers cannot be made up the entry is appended all the same, as a  *)
(* Pending websocket entry.                                                *)
(***************************************************************************)
C22_WebSocketAppendsOnePending ==
    [][lastEvent'.kind = "websocket"
          => /\ Len(networkRequests') = Len(networkRequests) + 1
             /\ SubSeq(networkRequests', 1, Len(networkRequests)) = networkRequests
             /\ LET entry == networkRequests'[Len(networkRequests')]
                IN /\ entry.url = lastEvent'.url
                   /\ entry.isWebSocket
                   /\ entry.resourceType = "websocket"
                   /\ IsPending(entry)
                   /\ parses(entry.url)
                         => /\ HeaderGet(entry.headers, "upgrade") = "websocket"
                            /\ HeaderGet(entry.headers, "connection") = "Upgrade"
                            /\ HeaderGet(entry.headers, "host") = entry.url.host]_vars

\* a socket whose headers could not be made up has its Pending entry, after
\* the entry of a socket whose headers could
C22_Witness ==
    /\ lastEvent.kind = "websocket"
    /\ Len(networkRequests) = 2
    /\ networkRequests[1].url = UrlWs
    /\ DOMAIN networkRequests[1].headers # {}
    /\ networkRequests[2].url = UrlUnparsed
    /\ networkRequests[2].isWebSocket
    /\ IsPending(networkRequests[2])
    /\ DOMAIN networkRequests[2].headers = {}

(***************************************************************************)
(* C23.  A close notification gives its websocket entry a response with    *)
(* the status 'CLOSED', a socketerror notification gives it the failed     *)
(* flag, and a websocket entry that received both is Completed or Failed,  *)
(* never both.                                                             *)
(***************************************************************************)
C23_SocketEndsInOneOutcome ==
    /\ [][/\ lastEvent'.kind = "close"
                => \E i \in openSockets \ openSockets' :
                      /\ networkRequests'[i].url = lastEvent'.url
                      /\ IsCompleted(networkRequests'[i])
                      /\ StatusOf(networkRequests'[i]) = CLOSED
          /\ lastEvent'.kind = "socketerror"
                => \E i \in openSockets :
                      /\ networkRequests'[i].url = lastEvent'.url
                      /\ IsFailed(networkRequests'[i])]_vars
    /\ [](\A i \in 1..Len(networkRequests) :
             networkRequests[i].isWebSocket
                => ~(IsCompleted(networkRequests[i]) /\ IsFailed(networkRequests[i])))

(***************************************************************************)
(* C24.  The ledger is append-only and in creation order: a step removes   *)
(* no entry and moves none, it adds at most one entry and adds it at the   *)
(* end, so an entry created earlier always comes before one created later. *)
(***************************************************************************)
\* what tells one exchange from another: its address and the time it began
Identity(req) == <<req.url, req.method, req.startTime, req.isWebSocket>>

C24_AppendOnlyInCreationOrder ==
    /\ [][/\ Len(networkRequests') \in {Len(networkRequests), Len(networkRequests) + 1}
          /\ \A i \in 1..Len(networkRequests) :
                Identity(networkRequests'[i]) = Identity(networkRequests[i])
          /\ Len(networkRequests') = Len(networkRequests) + 1
                => networkRequests'[Len(networkRequests')].startTime = now]_vars
    /\ [](\A i, j \in 1..Len(networkRequests) :
             i < j => networkRequests[i].startTime <= networkRequests[j].startTime)

\* three entries created at three different times, the first one completed
\* after the last one was created
C24_Witness ==
    /\ Len(networkRequests) = 3
    /\ networkRequests[1].startTime < networkRequests[2].startTime
    /\ networkRequests[2].startTime < networkRequests[3].startTime
    /\ IsCompleted(networkRequests[1])
    /\ networkRequests[1].response[1].duration
          > networkRequests[3].startTime - networkRequests[1].startTime

C25_WitnessTwoDomains ==
    Closed /\ Report.domains = {"a.test", "b.test"} /\ Report.multipleDomains

(***************************************************************************)
(* C26.  With a url argument that is not a valid URL the program prints    *)
(* the Invalid URL error and exits with a code other than 0; it never      *)
(* launches the browser, registers no callback and prints no capture       *)
(* summary.                                                                *)
(***************************************************************************)
Printed(line) == \E k \in 1..Len(mainLog) : mainLog[k] = line
Exited == phase = "exited"

C26_InvalidUrlRejected ==
    (argv.url # NoUrl /\ argv.url.host = "")
        => /\ browser = "none"
           /\ handlers = {}
           /\ report = <<>>
           /\ ~Printed(CaptureComplete)
           /\ ~Printed(Starting)
           /\ phase \in {"start", "exited"}
           /\ Exited => /\ exitCode # <<>>
                        /\ exitCode[1] # 0
                        /\ mainLog = <<"Error: Invalid URL">>

\* the run with the argument 'invalid-url' has ended
C26_Witness ==
    /\ argv.url = InvalidUrl
    /\ Exited
    /\ exitCode = <<1>>
    /\ Printed("Error: Invalid URL")

(***************************************************************************)
(* C27.  With a delay option that is not a number or is negative the       *)
(* program prints the Invalid delay error and exits with a code other than *)
(* 0 without launching the browser; a delay that passes the validation is  *)
(* a positive number.                                                      *)
(***************************************************************************)
\* text is the decimal numeral of a positive integer
IsPositiveNumeral(text) ==
    /\ Len(text) > 0
    /\ \A i \in 1..Len(text) : IsDigit(SubSeq(text, i, i))
    /\ \E i \in 1..Len(text) : SubSeq(text, i, i) # "0"

C27_DelayValidated ==
    [][phase = "urlChecked"
          => IF IsPositiveNumeral(argv.delay)
             THEN phase' = "delayChecked" /\ exitCode' = <<>>
             ELSE /\ phase' = "exited"
                  /\ exitCode' # <<>>
                  /\ exitCode'[1] # 0
                  /\ mainLog' = <<"Error: Invalid delay">>
                  /\ browser' = "none"]_vars

(***************************************************************************)
(* C28.  A request-failed notification whose url and method belong only to *)
(* entries that are already Completed or Failed appends a new Failed entry *)
(* and leaves those entries as they were.                                  *)
(***************************************************************************)
C28_FailureSparesTerminal ==
    [][(/\ lastEvent'.kind = "requestfailed"
        /\ KeyIndexes(networkRequests, lastEvent'.url, lastEvent'.method) # {}
        /\ \A i \in KeyIndexes(networkRequests, lastEvent'.url, lastEvent'.method) :
              IsTerminal(networkRequests[i]))
          => /\ Len(networkRequests') = Len(networkRequests) + 1
             /\ SubSeq(networkRequests', 1, Len(networkRequests)) = networkRequests
             /\ IsFailed(networkRequests'[Len(networkRequests')])]_vars

(***************************************************************************)
(* C29.  The request fields of an entry (url, method, headers, post data,  *)
(* resource type, start time) are set when the entry is created and no     *)
(* later notification changes any of them.                                 *)
(***************************************************************************)
RequestFields(req) ==
    <<req.url, req.method, req.headers, req.postData, req.resourceType,
      req.startTime>>

C29_RequestFieldsImmutable ==
    [][\A i \in 1..Len(networkRequests) :
          /\ i <= Len(networkRequests')
          /\ RequestFields(networkRequests'[i]) = RequestFields(networkRequests[i])]_vars

(***************************************************************************)
(* C30.  When a response completes an entry, the duration recorded is the  *)
(* time of the response minus the start time of the request it answers,    *)
(* the oldest one still Pending for that url and method, and it is never   *)
(* negative; this holds with several requests of one url and method in     *)
(* flight.                                                                 *)
(***************************************************************************)
PendingWithKey(reqs, url, method) ==
    {i \in KeyIndexes(reqs, url, method) : IsPending(reqs[i])}

C30_DurationOfAnsweredRequest ==
    [][(/\ lastEvent'.kind = "response"
        /\ PendingWithKey(networkRequests, lastEvent'.url, lastEvent'.method) # {})
          => LET waiting == PendingWithKey(networkRequests, lastEvent'.url,
                                           lastEvent'.method)
                 i == CHOOSE k \in waiting : \A m \in waiting : k <= m
             IN /\ IsCompleted(networkRequests'[i])
                /\ networkRequests'[i].response[1].duration
                      = now - networkRequests[i].startTime
                /\ networkRequests'[i].response[1].duration >= 0]_vars

(***************************************************************************)
(* C31.  A response or request-failed notification changes at most one of  *)
(* the entries of the ledger, and only an entry of its own url and method: *)
(* the entries of another url or method, and all but one of the entries of *)
(* its url and method, are as they were.                                   *)
(***************************************************************************)
ChangedIndexes ==
    {i \in 1..Len(networkRequests) :
        i > Len(networkRequests') \/ networkRequests'[i] # networkRequests[i]}

C31_AtMostOneEntryChanged ==
    [][lastEvent'.kind \in {"response", "requestfailed"}
          => /\ Cardinality(ChangedIndexes) <= 1
             /\ \A i \in ChangedIndexes :
                   HasKey(networkRequests[i], lastEvent'.url, lastEvent'.method)]_vars

\* a response was given to one of two entries of the same url and method
C31_Witness ==
    /\ lastEvent.kind = "response"
    /\ Len(networkRequests) = 2
    /\ HasKey(networkRequests[1], lastEvent.url, lastEvent.method)
    /\ HasKey(networkRequests[2], lastEvent.url, lastEvent.method)
    /\ IsCompleted(networkRequests[1])
    /\ ~IsFailed(networkRequests[1])
    /\ IsPending(networkRequests[2])

(***************************************************************************)
(* C32.  The two streams are independent: a console or page-error          *)
(* notification leaves the network ledger as it was, and a request-start,  *)
(* response, request-failed or websocket notification leaves the console   *)
(* transcript as it was.                                                   *)
(***************************************************************************)
\* the step handles a console or page-error notification, or resumes a
\* console callback
ConsoleStep ==
    \/ delivered' # delivered
    \/ inFlight' # inFlight
    \/ stderr' # stderr

\* the step handles a notification of the network
NetworkStep ==
    lastEvent'.kind \in {"request", "response", "requestfailed", "websocket",
                         "socketerror", "close"}

C32_StreamsIndependent ==
    [][/\ ConsoleStep => /\ networkRequests' = networkRequests
                         /\ openSockets' = openSockets
       /\ NetworkStep => /\ consoleMessages' = consoleMessages
                         /\ stdout' = stdout
                         /\ stderr' = stderr
                         /\ delivered' = delivered
                         /\ inFlight' = inFlight]_vars

\* a console record, a page error, a Completed entry and a Pending entry
\* in one run
C32_Witness ==
    /\ Len(consoleMessages) >= 1
    /\ Len(stderr) >= 1
    /\ Len(networkRequests) = 2
    /\ IsCompleted(networkRequests[1])
    /\ IsPending(networkRequests[2])

(***************************************************************************)
(* C33.  The diagnostics group the Pending entries by resource type: every *)
(* Pending entry is in exactly one bucket, the bucket sizes add up to the  *)
(* number of Pending entries, and no Completed or Failed entry is in a     *)
(* bucket.                                                                 *)
(***************************************************************************)
\* the buckets the diagnostics compute
Buckets == <<Report.pendingScripts, Report.pendingStylesheets, Report.pendingImages>>

InBucket(req, b) == \E k \in 1..Len(Buckets[b]) : Buckets[b][k] = req

C33_PendingBucketsPartition ==
    Closed =>
        /\ \A i \in 1..Len(networkRequests) :
              IF IsPending(networkRequests[i])
              THEN Cardinality({b \in DOMAIN Buckets :
                                   InBucket(networkRequests[i], b)}) = 1
              ELSE \A b \in DOMAIN Buckets : ~InBucket(networkRequests[i], b)
        /\ Len(Buckets[1]) + Len(Buckets[2]) + Len(Buckets[3]) = Report.pending

(***************************************************************************)
(* C34.  formatHeaders formats a header map value by value: the result has *)
(* every key of the map, in the same order, and each value is cut by the   *)
(* bound on its own, whatever the other values are; a map that is absent   *)
(* or empty is formatted as {}.                                            *)
(***************************************************************************)
HeadersFormatted == headersOutput # <<>>
HeadersIn == headersCall[1].headers
HeadersBound == headersCall[1].maxLength
HeadersOut == headersOutput[1]

\* out is text cut by the bound n
CutBy(out, text, n) ==
    IF Len(text) <= n THEN out = text
    ELSE /\ Len(out) = n + 3
         /\ SubSeq(out, 1, n) = SubSeq(text, 1, n)
         /\ SubSeq(out, n + 1, n + 3) = "..."

C34_HeadersValueByValue ==
    HeadersFormatted =>
        IF ~HeadersIn.given \/ HeadersIn.entries = <<>>
        THEN HeadersOut.text = "{}"
        ELSE /\ Len(HeadersOut.formatted) = Len(HeadersIn.entries)
             /\ \A k \in 1..Len(HeadersIn.entries) :
                   /\ HeadersOut.formatted[k][1] = HeadersIn.entries[k][1]
                   /\ CutBy(HeadersOut.formatted[k][2],
                            HeadersIn.entries[k][2].string, HeadersBound)
             /\ HeadersOut.text = stringify(HeadersOut.formatted)
             /\ HeadersOut.text # "{}"

\* a value longer than the default bound was cut and the value after it,
\* shorter than the bound, was kept whole
C34_Witness ==
    /\ HeadersFormatted
    /\ HeadersIn.given
    /\ HeadersBound = 512
    /\ Len(HeadersIn.entries) = 2
    /\ Len(HeadersIn.entries[1][2].string) = 513
    /\ HeadersIn.entries[2][2].string = "abab"
    /\ Len(HeadersOut.formatted[1][2]) = 515
    /\ HeadersOut.formatted[2] = <<"cookie", "abab">>

\* an absent map was formatted
C34_WitnessAbsent == HeadersFormatted /\ ~HeadersIn.given /\ HeadersOut.text = "{}"

(***************************************************************************)
(* C35.  A browser that was launched is closed before the process exits,   *)
(* on every path out of main(): after a capture that succeeded and after   *)
(* an error that leads to exit code 1.                                     *)
(***************************************************************************)
C35_BrowserClosedBeforeExit ==
    (Exited /\ browser # "none")
        => /\ browser = "closed"
           /\ Printed(BrowserClosed)

(***************************************************************************)
(* C36.  The capture summary is produced only after the navigation has     *)
(* succeeded and the observation window has elapsed.  When the navigation  *)
(* fails the program exits with code 1 and prints neither Capture complete *)
(* nor a summary; a run whose navigation and wait succeed exits with       *)
(* code 0.                                                                 *)
(***************************************************************************)
NavigationFailed == Printed("Error: navigation failed")

C36_SummaryOnlyAfterCapture ==
    /\ (Printed(CaptureComplete) \/ report # <<>>)
          => /\ Printed(PageLoaded)
             /\ ~NavigationFailed
             /\ phase \in {"closed", "exited"}
    /\ NavigationFailed
          => /\ Exited
             /\ exitCode = <<1>>
             /\ report = <<>>
             /\ ~Printed(CaptureComplete)
    /\ (Exited /\ Printed(CaptureComplete)) => exitCode = <<0>>
    /\ (Exited /\ exitCode = <<0>>) => Printed(CaptureComplete) /\ report # <<>>

\* a run whose navigation failed has ended
C36_Witness ==
    /\ Exited
    /\ NavigationFailed
    /\ exitCode = <<1>>
    /\ Printed(Navigating)

\* a run whose navigation and wait succeeded has ended
C36_WitnessSuccess ==
    /\ Exited
    /\ exitCode = <<0>>
    /\ Printed(PageLoaded)
    /\ Printed(CaptureComplete)

====
